---- MODULE Spec2Model ----
(***************************************************************************)
(* Model of the puchchat relay (index.js): the command tools connect,      *)
(* disconnect, send, fetch, help and connectedUsers working on the process *)
(* wide session and on the two store tables puchchat_users and puchchat,   *)
(* and the Supabase Realtime listener with its reconnect timer.            *)
(*                                                                         *)
(* Strings are sequences of one-character strings, so that trim() and      *)
(* toLowerCase() are computed and not assumed.  Every `await` on a store   *)
(* call is a separate step: the store operation takes effect in the step   *)
(* that resumes the tool.  Other relay processes run the same tools on    *)
(* the same store; of them the model keeps the store writes (Peer...).     *)
(***************************************************************************)
EXTENDS Integers, Sequences, FiniteSets, TLC

\* ------------------------------------------------------------------ bounds
MaxMsgs == 2        \* rows the puchchat table may hold
MaxOrphans == 2     \* superseded channels the model keeps track of
MaxTimers == 2      \* pending setTimeout callbacks the model keeps track of
MaxFailures == 2    \* consecutive CLOSED reports that are counted
MaxTokenLen == 11   \* longest credential presented to verify

\* ------------------------------------------------------------- input sets
Tasks == {"t1", "t2"}                \* command invocations that can be in flight
TOKEN == <<"s", "e", "c">>           \* process.env.AUTH_TOKEN
Creds == {TOKEN, <<"s", "e">>}       \* credentials a caller may present
RawNames == {<<"a">>, <<" ", "A">>, <<"b">>, <<>>}  \* username arguments
RawTexts == {<<" ", "h">>, <<" ">>}                 \* message arguments
Missing == <<"undefined">>             \* args[0] of a command called with no argument
NoUser == <<"null">>                 \* JavaScript null in session.username

VARIABLES
    users,            \* table puchchat_users: set of rows [username, is_connected]
    messages,         \* table puchchat: sequence of [id, username, message]
    msgSeq,           \* the store's serial behind puchchat.id
    session,          \* the process-wide session: [username, last_message_id]
    task,             \* per invocation: tool, position, locals, last result
    unseen,           \* rows inserted since the session's cursor was last set
    realtimeChannel,  \* the channel the variable refers to: [status, tracks]
    orphans,          \* earlier channels that were replaced while not closed
    timers,           \* pending setTimeout(() => startRealtimeListener(), 5000)
    tracked,          \* user of the last presence track call
    phase,            \* "boot" before line 120, "up", "exited" after process.exit
    failures,         \* CLOSED reports since the listener was last SUBSCRIBED
    starts,           \* startRealtimeListener invocations, modulo 2
    realtimeLog,      \* last line a change notification handler logged
    logLevel,         \* process.env.LOG_LEVEL || 'info'
    verifyLog         \* the token text in the last line verify wrote to the log

relayVars == <<users, messages, msgSeq, session, task, unseen, logLevel, verifyLog>>
listenerVars == <<realtimeChannel, orphans, timers, tracked, phase, failures, starts,
                  realtimeLog>>
vars == <<users, messages, msgSeq, session, task, unseen,
          realtimeChannel, orphans, timers, tracked, phase, failures, starts,
          realtimeLog, logLevel, verifyLog>>

\* ---------------------------------------------------------------- strings
RECURSIVE TrimStart(_)
TrimStart(s) ==
    IF s # <<>> /\ Head(s) = " " THEN TrimStart(Tail(s)) ELSE s

RECURSIVE TrimEnd(_)
TrimEnd(s) ==
    IF s # <<>> /\ s[Len(s)] = " " THEN TrimEnd(SubSeq(s, 1, Len(s) - 1)) ELSE s

Trim(s) == TrimEnd(TrimStart(s))

LowerChar(c) ==
    CASE c = "A" -> "a"
      [] c = "B" -> "b"
      [] c = "H" -> "h"
      [] OTHER -> c

ToLowerCase(s) == [i \in 1..Len(s) |-> LowerChar(s[i])]

NormalizeRaw(raw) == Trim(raw)

Normalize(raw) == ToLowerCase(Trim(raw))

\* JavaScript truthiness of session.username: null and "" are falsy
Falsy(u) == u = NoUser \/ u = <<>>

\* ------------------------------------------------------------------ store
StoreOutcomes == {"ok", "error", "throw"}

RowsOf(name) == {r \in users : r.username = name}

\* .single(): an error unless exactly one row matches
Single(rows) ==
    IF Cardinality(rows) = 1
    THEN [error |-> FALSE, is_connected |-> (CHOOSE r \in rows : TRUE).is_connected]
    ELSE [error |-> TRUE, is_connected |-> FALSE]

\* puchchat_users.username is declared unique: an insert of `name` is accepted
\* only when no row holds it
UsernameUnique(name) == RowsOf(name) = {}

\* update({ is_connected: flag }).eq("username", name)
SetConnected(name, flag) ==
    {IF r.username = name THEN [r EXCEPT !.is_connected = flag] ELSE r : r \in users}

RECURSIVE InsertById(_, _)
InsertById(m, sorted) ==
    IF sorted = <<>> THEN <<m>>
    ELSE IF m.id < Head(sorted).id THEN <<m>> \o sorted
    ELSE <<Head(sorted)>> \o InsertById(m, Tail(sorted))

RECURSIVE OrderById(_)
OrderById(rows) ==
    IF rows = <<>> THEN <<>> ELSE InsertById(Head(rows), OrderById(Tail(rows)))

SelectAfterGte(lastId) == OrderById(SelectSeq(messages, LAMBDA m : m.id >= lastId))

SelectAfter(lastId) == OrderById(SelectSeq(messages, LAMBDA m : m.id > lastId))

\* `[timestamp] username: message`; the store's timestamp is not modelled
FormatLine(m) == <<m.username, m.message>>

Format(rows) == [i \in 1..Len(rows) |-> FormatLine(rows[i])]

\* ------------------------------------------------------ realtime listener
Undefined == [status |-> "undefined", tracks |-> FALSE]

Statuses == {"SUBSCRIBED", "CHANNEL_ERROR", "TIMED_OUT", "CLOSED"}
FailureStatuses == {"CHANNEL_ERROR", "TIMED_OUT", "CLOSED"}

\* a channel that still holds a subscription on the realtime client: it was
\* subscribed and neither closed nor unsubscribed
Held(ch) == ch.status \in {"SUBSCRIBING", "SUBSCRIBED", "CHANNEL_ERROR", "TIMED_OUT"}
Live(ch) == ch.status \in {"SUBSCRIBING", "SUBSCRIBED"}

Anonymous == <<"anonymous">>

Saturate(n, max) == IF n < max THEN n ELSE max

\* the model follows at most MaxOrphans replaced channels and forgets the oldest
Orphaned(old) ==
    IF ~Held(old) THEN orphans
    ELSE IF Len(orphans) < MaxOrphans THEN Append(orphans, old)
    ELSE Append(Tail(orphans), old)

\* startRealtimeListener().  `outcome` is what the client library does in the
\* try block: "ok", an exception before the channel is assigned ("throw_early"),
\* or an exception of the second subscribe call at line 106 ("throw_late").
\* `due` is the number of timers pending when the function is entered.
StartRealtimeListener(outcome, due) ==
    /\ starts' = 1 - starts
    /\ IF outcome = "throw_early"
       THEN UNCHANGED <<realtimeChannel, orphans>>
       ELSE /\ realtimeChannel' = [status |-> "SUBSCRIBING", tracks |-> outcome = "ok"]
            /\ orphans' = Orphaned(realtimeChannel)
    /\ timers' = IF outcome = "ok" THEN due ELSE Saturate(due + 1, MaxTimers)
    /\ UNCHANGED <<tracked, failures, realtimeLog>>

StartOutcomes == {"ok", "throw_early", "throw_late"}

\* line 120: the listener is started when the module is loaded
Boot ==
    /\ phase = "boot"
    /\ phase' = "up"
    /\ \E outcome \in StartOutcomes : StartRealtimeListener(outcome, timers)
    /\ UNCHANGED relayVars

\* a reconnect timer fires
TimerFire ==
    /\ phase = "up"
    /\ timers > 0
    /\ \E outcome \in StartOutcomes : StartRealtimeListener(outcome, timers - 1)
    /\ UNCHANGED <<phase, relayVars>>

\* the two subscribe callbacks of a channel, called with `status`:
\* lines 92-103 schedule a reconnect on CLOSED only, lines 106-111 track
\* presence on SUBSCRIBED
SubscribeCallbacksNoRetry(ch, status) ==
    /\ timers' = timers
    /\ tracked' = IF status = "SUBSCRIBED" /\ ch.tracks
                  THEN (IF Falsy(session.username) THEN Anonymous ELSE session.username)
                  ELSE tracked

SubscribeCallbacks(ch, status) ==
    /\ timers' = IF status = "CLOSED" THEN Saturate(timers + 1, MaxTimers) ELSE timers
    /\ tracked' = IF status = "SUBSCRIBED" /\ ch.tracks
                  THEN (IF Falsy(session.username) THEN Anonymous ELSE session.username)
                  ELSE tracked

\* what the client library can report next for a channel in status `from`:
\* a failure after SUBSCRIBING or SUBSCRIBED, and after CHANNEL_ERROR or
\* TIMED_OUT either the result of its own rejoin or the close of the channel
Reportable(from) ==
    CASE from = "SUBSCRIBING" -> Statuses
      [] from = "SUBSCRIBED" -> FailureStatuses
      [] from \in {"CHANNEL_ERROR", "TIMED_OUT"} -> {"SUBSCRIBED", "CLOSED"}
      [] OTHER -> {}

\* the client library reports `status` for the channel in realtimeChannel
ChannelStatus(status) ==
    /\ phase = "up"
    /\ status \in Reportable(realtimeChannel.status)
    /\ realtimeChannel' = [realtimeChannel EXCEPT !.status = status]
    /\ SubscribeCallbacks(realtimeChannel, status)
    /\ failures' = IF status = "SUBSCRIBED" THEN 0
                   ELSE IF status = "CLOSED" THEN Saturate(failures + 1, MaxFailures)
                   ELSE failures
    /\ UNCHANGED <<orphans, phase, starts, realtimeLog, relayVars>>

RemoveAt(seq, i) == SubSeq(seq, 1, i - 1) \o SubSeq(seq, i + 1, Len(seq))

\* the client library reports `status` for a replaced channel; its callbacks
\* are still registered
OrphanStatus(i, status) ==
    /\ phase = "up"
    /\ i \in 1..Len(orphans)
    /\ status \in Reportable(orphans[i].status)
    /\ orphans' = IF status = "CLOSED" THEN RemoveAt(orphans, i)
                  ELSE [orphans EXCEPT ![i].status = status]
    /\ SubscribeCallbacks(orphans[i], status)
    /\ UNCHANGED <<realtimeChannel, phase, failures, starts, realtimeLog, relayVars>>

\* some channel of this process is joined and receives change notifications
Subscribed ==
    \/ realtimeChannel.status = "SUBSCRIBED"
    \/ \E i \in 1..Len(orphans) : orphans[i].status = "SUBSCRIBED"

MessageInsertedAdvances(i) ==
    /\ phase = "up" /\ Subscribed
    /\ i \in 1..Len(messages)
    /\ realtimeLog' = <<"message", messages[i].username, messages[i].message>>
    /\ session' = [session EXCEPT !.last_message_id = messages[i].id]
    /\ UNCHANGED <<realtimeChannel, orphans, timers, tracked, phase, failures, starts,
                   users, messages, msgSeq, task, unseen, logLevel, verifyLog>>

\* lines 78-85: the INSERT notification of a row of puchchat is logged; the
\* stream may deliver the notification of any row late, twice or never
MessageInserted(i) ==
    /\ phase = "up" /\ Subscribed
    /\ i \in 1..Len(messages)
    /\ realtimeLog' = <<"message", messages[i].username, messages[i].message>>
    /\ UNCHANGED <<realtimeChannel, orphans, timers, tracked, phase, failures, starts,
                   relayVars>>

UserEvents == {"INSERT", "UPDATE"}

\* lines 86-90: a change notification of a row of puchchat_users is logged
UserChanged(eventType, r) ==
    /\ phase = "up" /\ Subscribed
    /\ r \in users
    /\ realtimeLog' = <<"user", <<eventType>>, r.username>>
    /\ UNCHANGED <<realtimeChannel, orphans, timers, tracked, phase, failures, starts,
                   relayVars>>

\* process.on('SIGINT'): unsubscribe the channel in realtimeChannel, then exit
Sigint ==
    /\ phase = "up"
    /\ phase' = "exited"
    /\ realtimeChannel' = IF realtimeChannel # Undefined
                          THEN [realtimeChannel EXCEPT !.status = "UNSUBSCRIBED"]
                          ELSE realtimeChannel
    /\ orphans' = <<>>
    /\ timers' = 0
    /\ UNCHANGED <<tracked, failures, starts, realtimeLog, relayVars>>

\* the dispatcher reads `/exit`: process.exit() with no unsubscribe
ExitCommand ==
    /\ phase = "up"
    /\ phase' = "exited"
    /\ orphans' = <<>>
    /\ timers' = 0
    /\ UNCHANGED <<realtimeChannel, tracked, failures, starts, realtimeLog, relayVars>>

\* ------------------------------------------------------------ task records
Idle ==
    [op |-> "none", pc |-> "done", cred |-> TOKEN, arg |-> <<>>, username |-> NoUser,
     lastId |-> 0, sess0 |-> [username |-> NoUser, last_message_id |-> 0],
     after |-> "other", res |-> "none", out |-> <<>>, count |-> 0, names |-> {}]

\* an invocation slot the dispatcher does not use
Off == [Idle EXCEPT !.pc = "off"]

ReadySubscribed(t) ==
    task[t].pc = "done" /\ phase # "exited" /\ realtimeChannel.status = "SUBSCRIBED"

Ready(t) == task[t].pc = "done" /\ phase # "exited"

\* what the previous command of the same invocation slot was: a drain that
\* delivered ("fetched"), a successful leave ("left"), or anything else
PrevTag(rec) ==
    IF rec.op = "fetch" /\ rec.res \in {"Messages", "NoNew"} THEN "fetched"
    ELSE IF rec.op = "disconnect" /\ rec.res = "Disconnected" THEN "left"
    ELSE "other"

\* the record of a tool that has just been called; sess0 is the session the
\* call found
Called(t, op, cred, arg) ==
    [Idle EXCEPT !.op = op, !.cred = cred, !.arg = arg, !.pc = "called",
                 !.sess0 = session, !.after = PrevTag(task[t])]

\* the tool returns `res` with payload `out`; its locals are gone
Return(rec, res, out) ==
    [rec EXCEPT !.pc = "done", !.res = res, !.out = out, !.arg = <<>>,
                !.username = NoUser, !.lastId = 0, !.sess0 = Idle.sess0]

LogPrefix == 10

Min(a, b) == IF a < b THEN a ELSE b

\* providedToken.substring(0, 10)
Substring(str, end) == SubSeq(str, 1, Min(end, Len(str)))

Levels == {"info", "debug"}

\* logger.debug(`Attempting to verify token: ${providedToken?.substring(0, 10)}...`):
\* pino writes the line when the level is debug
VerifyLog(providedToken) ==
    IF logLevel = "debug" THEN Substring(providedToken, LogPrefix) ELSE verifyLog

VerifyPrefix(providedToken) ==
    /\ Len(providedToken) <= Len(TOKEN)
    /\ SubSeq(TOKEN, 1, Len(providedToken)) = providedToken

\* SimpleAuthProvider.verify: providedToken === this.token
Verify(providedToken) == providedToken = TOKEN

\* ---------------------------------------------------------------- connect
ConnectCallTrimOutsideTry(t, raw, cred) ==
    /\ Ready(t)
    /\ LET rec == Called(t, "connect", cred, raw) IN
       IF ~Verify(cred)
       THEN /\ task' = [task EXCEPT ![t] = Return(rec, "AuthFailed", <<>>)]
            /\ UNCHANGED session
       ELSE IF raw = Missing
       THEN /\ task' = [task EXCEPT ![t] = Return(rec, "Raised", <<>>)]
            /\ UNCHANGED session
       ELSE /\ session' = [session EXCEPT !.username = Normalize(raw)]
            /\ task' = [task EXCEPT ![t] =
                   [rec EXCEPT !.pc = "connect_select", !.username = Normalize(raw)]]
    /\ UNCHANGED <<users, messages, msgSeq, unseen, listenerVars, logLevel>>
    /\ verifyLog' = VerifyLog(cred)

\* undefined.trim() at line 169 throws inside the try block and the catch
\* block returns the unexpected-error string
ConnectCall(t, raw, cred) ==
    /\ Ready(t)
    /\ LET rec == Called(t, "connect", cred, raw) IN
       IF ~Verify(cred)
       THEN /\ task' = [task EXCEPT ![t] = Return(rec, "AuthFailed", <<>>)]
            /\ UNCHANGED session
       ELSE IF raw = Missing
       THEN /\ task' = [task EXCEPT ![t] = Return(rec, "Unexpected", <<>>)]
            /\ UNCHANGED session
       ELSE /\ session' = [session EXCEPT !.username = Normalize(raw)]
            /\ task' = [task EXCEPT ![t] =
                   [rec EXCEPT !.pc = "connect_select", !.username = Normalize(raw)]]
    /\ UNCHANGED <<users, messages, msgSeq, unseen, listenerVars, logLevel>>
    /\ verifyLog' = VerifyLog(cred)

ConnectSelect(t) ==
    /\ task[t].pc = "connect_select"
    /\ \E outcome \in StoreOutcomes \cup {"PGRST116"} :
        LET rec == task[t]
            userData == IF outcome = "ok" THEN RowsOf(rec.username) ELSE {}
        IN  CASE outcome = "throw" ->
                   task' = [task EXCEPT ![t] = Return(rec, "Unexpected", <<>>)]
              [] outcome = "error" ->
                   task' = [task EXCEPT ![t] = Return(rec, "ErrFetchUser", <<>>)]
              [] OTHER ->
                   task' = [task EXCEPT ![t].pc =
                       IF Cardinality(userData) > 0 THEN "connect_update"
                                                   ELSE "connect_insert"]
    /\ UNCHANGED <<users, messages, msgSeq, session, unseen, listenerVars, logLevel, verifyLog>>

ConnectDoneKeepCursor(t) ==
    /\ UNCHANGED <<session, unseen>>
    /\ task' = [task EXCEPT ![t] =
           [Return(task[t], "Connected", <<task[t].username>>) EXCEPT
               !.arg = task[t].arg]]

\* connect succeeded: reset the cursor and return
ConnectDone(t) ==
    /\ session' = [session EXCEPT !.last_message_id = 0]
    /\ unseen' = messages
    /\ task' = [task EXCEPT ![t] =
           [Return(task[t], "Connected", <<task[t].username>>) EXCEPT
               !.arg = task[t].arg]]

ConnectUpdate(t) ==
    /\ task[t].pc = "connect_update"
    /\ \E outcome \in StoreOutcomes :
        CASE outcome = "throw" ->
               /\ task' = [task EXCEPT ![t] = Return(task[t], "Unexpected", <<>>)]
               /\ UNCHANGED <<users, session, unseen>>
          [] outcome = "error" ->
               /\ task' = [task EXCEPT ![t] = Return(task[t], "ErrUpdateUser", <<>>)]
               /\ UNCHANGED <<users, session, unseen>>
          [] OTHER ->
               /\ users' = SetConnected(task[t].username, TRUE)
               /\ ConnectDone(t)
    /\ UNCHANGED <<messages, msgSeq, listenerVars, logLevel, verifyLog>>

ConnectInsert(t) ==
    /\ task[t].pc = "connect_insert"
    /\ \E outcome \in StoreOutcomes :
        CASE outcome = "throw" ->
               /\ task' = [task EXCEPT ![t] = Return(task[t], "Unexpected", <<>>)]
               /\ UNCHANGED <<users, session, unseen>>
          [] outcome = "error" \/ ~UsernameUnique(task[t].username) ->
               /\ task' = [task EXCEPT ![t] = Return(task[t], "ErrInsertUser", <<>>)]
               /\ UNCHANGED <<users, session, unseen>>
          [] OTHER ->
               /\ users' = users \cup
                      {[username |-> task[t].username, is_connected |-> TRUE]}
               /\ ConnectDone(t)
    /\ UNCHANGED <<messages, msgSeq, listenerVars, logLevel, verifyLog>>

\* ------------------------------------------------------------- disconnect
DisconnectCallClearFirst(t, cred) ==
    /\ Ready(t)
    /\ LET rec == Called(t, "disconnect", cred, <<>>)
           username == session.username
       IN  /\ task' = [task EXCEPT ![t] =
                  IF ~Verify(cred) THEN Return(rec, "AuthFailed", <<>>)
                  ELSE IF Falsy(username) THEN Return(rec, "NotConnected", <<>>)
                  ELSE [rec EXCEPT !.pc = "disconnect_update", !.username = username]]
           /\ session' = IF Verify(cred) /\ ~Falsy(username)
                         THEN [username |-> NoUser, last_message_id |-> 0]
                         ELSE session
    /\ UNCHANGED <<users, messages, msgSeq, unseen, listenerVars, logLevel>>
    /\ verifyLog' = VerifyLog(cred)

DisconnectCall(t, cred) ==
    /\ Ready(t)
    /\ LET rec == Called(t, "disconnect", cred, <<>>)
           username == session.username
       IN  task' = [task EXCEPT ![t] =
               IF ~Verify(cred) THEN Return(rec, "AuthFailed", <<>>)
               ELSE IF Falsy(username) THEN Return(rec, "NotConnected", <<>>)
               ELSE [rec EXCEPT !.pc = "disconnect_update", !.username = username]]
    /\ UNCHANGED <<users, messages, msgSeq, session, unseen, listenerVars, logLevel>>
    /\ verifyLog' = VerifyLog(cred)

DisconnectUpdateKeepSession(t) ==
    /\ task[t].pc = "disconnect_update"
    /\ \E outcome \in StoreOutcomes :
        CASE outcome = "throw" ->
               /\ task' = [task EXCEPT ![t] = Return(task[t], "Unexpected", <<>>)]
               /\ UNCHANGED <<users, session, unseen>>
          [] outcome = "error" ->
               /\ task' = [task EXCEPT ![t] = Return(task[t], "ErrDisconnect", <<>>)]
               /\ UNCHANGED <<users, session, unseen>>
          [] OTHER ->
               /\ users' = SetConnected(task[t].username, FALSE)
               /\ task' = [task EXCEPT ![t] =
                      Return(task[t], "Disconnected", <<task[t].username>>)]
               /\ UNCHANGED <<session, unseen>>
    /\ UNCHANGED <<messages, msgSeq, listenerVars, logLevel, verifyLog>>

\* session.username = null; session.last_message_id = 0
ClearedSession == [username |-> NoUser, last_message_id |-> 0]

DisconnectUpdate(t) ==
    /\ task[t].pc = "disconnect_update"
    /\ \E outcome \in StoreOutcomes :
        CASE outcome = "throw" ->
               /\ task' = [task EXCEPT ![t] = Return(task[t], "Unexpected", <<>>)]
               /\ UNCHANGED <<users, session, unseen>>
          [] outcome = "error" ->
               /\ task' = [task EXCEPT ![t] = Return(task[t], "ErrDisconnect", <<>>)]
               /\ UNCHANGED <<users, session, unseen>>
          [] OTHER ->
               /\ users' = SetConnected(task[t].username, FALSE)
               /\ session' = ClearedSession
               /\ unseen' = messages
               /\ task' = [task EXCEPT ![t] =
                      Return(task[t], "Disconnected", <<task[t].username>>)]
    /\ UNCHANGED <<messages, msgSeq, listenerVars, logLevel, verifyLog>>

\* ------------------------------------------------------------------- send
SendCall(t, message, cred) ==
    /\ Ready(t)
    /\ LET rec == Called(t, "send", cred, message)
           username == session.username
       IN  task' = [task EXCEPT ![t] =
               IF ~Verify(cred) THEN Return(rec, "AuthFailed", <<>>)
               ELSE IF Falsy(username) THEN Return(rec, "MustConnect", <<>>)
               ELSE [rec EXCEPT !.pc = "send_verify", !.username = username]]
    /\ UNCHANGED <<users, messages, msgSeq, session, unseen, listenerVars, logLevel>>
    /\ verifyLog' = VerifyLog(cred)

VerifyConnectedRowOnly(t, next) ==
    \E outcome \in StoreOutcomes :
        LET userData == Single(RowsOf(task[t].username)) IN
        task' = [task EXCEPT ![t] =
            IF outcome = "throw" THEN Return(task[t], "Unexpected", <<>>)
            ELSE IF outcome = "error" \/ userData.error
                 THEN Return(task[t], "NotConnected", <<>>)
            ELSE [task[t] EXCEPT !.pc = next,
                                 !.lastId = session.last_message_id]]

\* the presence check shared by send and fetch: select is_connected ... .single()
VerifyConnected(t, next) ==
    \E outcome \in StoreOutcomes :
        LET userData == Single(RowsOf(task[t].username)) IN
        task' = [task EXCEPT ![t] =
            IF outcome = "throw" THEN Return(task[t], "Unexpected", <<>>)
            ELSE IF outcome = "error" \/ userData.error \/ ~userData.is_connected
                 THEN Return(task[t], "NotConnected", <<>>)
            ELSE [task[t] EXCEPT !.pc = next,
                                 !.lastId = session.last_message_id]]

SendVerify(t) ==
    /\ task[t].pc = "send_verify"
    /\ VerifyConnected(t, "send_insert")
    /\ UNCHANGED <<users, messages, msgSeq, session, unseen, listenerVars, logLevel, verifyLog>>

InsertMessageUpsert(row) ==
    IF messages = <<>> THEN <<row>> ELSE [messages EXCEPT ![Len(messages)] = row]

\* .from("puchchat").insert({username, message}): the row, with the id the
\* store's serial gave it, is added to the table
InsertMessage(row) == Append(messages, row)

SendInsert(t) ==
    /\ task[t].pc = "send_insert"
    /\ \E outcome \in StoreOutcomes :
        \* undefined.trim() at line 271 throws before the insert is sent
        CASE outcome = "throw" \/ task[t].arg = Missing ->
               /\ task' = [task EXCEPT ![t] = Return(task[t], "Unexpected", <<>>)]
               /\ UNCHANGED <<messages, msgSeq, unseen>>
          [] outcome = "error" ->
               /\ task' = [task EXCEPT ![t] = Return(task[t], "ErrSend", <<>>)]
               /\ UNCHANGED <<messages, msgSeq, unseen>>
          [] OTHER ->
               LET row == [id |-> msgSeq + 1, username |-> task[t].username,
                           message |-> Trim(task[t].arg)]
               IN  /\ Len(messages) < MaxMsgs
                   /\ messages' = InsertMessage(row)
                   /\ msgSeq' = msgSeq + 1
                   /\ unseen' = Append(unseen, row)
                   /\ task' = [task EXCEPT ![t] =
                          Return(task[t], "Sent", <<Trim(task[t].arg)>>)]
    /\ UNCHANGED <<users, session, listenerVars, logLevel, verifyLog>>

\* ------------------------------------------------------------------ fetch
FetchCall(t, cred) ==
    /\ Ready(t)
    /\ LET rec == Called(t, "fetch", cred, <<>>)
           username == session.username
       IN  task' = [task EXCEPT ![t] =
               IF ~Verify(cred) THEN Return(rec, "AuthFailed", <<>>)
               ELSE IF Falsy(username) THEN Return(rec, "MustConnect", <<>>)
               ELSE [rec EXCEPT !.pc = "fetch_verify", !.username = username]]
    /\ UNCHANGED <<users, messages, msgSeq, session, unseen, listenerVars, logLevel>>
    /\ verifyLog' = VerifyLog(cred)

FetchVerify(t) ==
    /\ task[t].pc = "fetch_verify"
    /\ VerifyConnected(t, "fetch_select")
    /\ UNCHANGED <<users, messages, msgSeq, session, unseen, listenerVars, logLevel, verifyLog>>

\* the cursor after a non-empty fetch: messages[messages.length - 1].id
NewCursorFirst(msgs) == msgs[1].id

NewCursor(msgs) == msgs[Len(msgs)].id

FetchSelect(t) ==
    /\ task[t].pc = "fetch_select"
    /\ \E outcome \in StoreOutcomes :
        LET msgs == SelectAfter(task[t].lastId)
            rec == task[t]
        IN  CASE outcome = "throw" ->
                   /\ task' = [task EXCEPT ![t] = Return(task[t], "Unexpected", <<>>)]
                   /\ UNCHANGED <<session, unseen>>
              [] outcome = "error" ->
                   /\ task' = [task EXCEPT ![t] =
                          Return(task[t], "ErrFetchMessages", <<>>)]
                   /\ UNCHANGED <<session, unseen>>
              [] outcome = "ok" /\ Len(msgs) = 0 ->
                   /\ task' = [task EXCEPT ![t] = Return(rec, "NoNew", <<>>)]
                   /\ UNCHANGED <<session, unseen>>
              [] OTHER ->
                   /\ session' = [session EXCEPT
                          !.last_message_id = NewCursor(msgs)]
                   /\ unseen' = <<>>
                   /\ task' = [task EXCEPT ![t] =
                          Return(rec, "Messages", Format(msgs))]
    /\ UNCHANGED <<users, messages, msgSeq, listenerVars, logLevel, verifyLog>>

\* ------------------------------------------------- help and connectedUsers
Help(t, cred) ==
    /\ Ready(t)
    /\ LET rec == Called(t, "help", cred, <<>>) IN
       task' = [task EXCEPT ![t] =
           IF ~Verify(cred) THEN Return(rec, "AuthFailed", <<>>)
           ELSE Return(rec, "Help", <<>>)]
    /\ UNCHANGED <<users, messages, msgSeq, session, unseen, listenerVars, logLevel>>
    /\ verifyLog' = VerifyLog(cred)

ConnectedUsersCall(t, cred) ==
    /\ Ready(t)
    /\ LET rec == Called(t, "connectedUsers", cred, <<>>) IN
       task' = [task EXCEPT ![t] =
           IF ~Verify(cred) THEN Return(rec, "AuthFailed", <<>>)
           ELSE [rec EXCEPT !.pc = "users_select"]]
    /\ UNCHANGED <<users, messages, msgSeq, session, unseen, listenerVars, logLevel>>
    /\ verifyLog' = VerifyLog(cred)

SelectConnectedAll == users

\* .from("puchchat_users").select("username").eq("is_connected", true)
SelectConnected == {r \in users : r.is_connected}

ConnectedUsersSelect(t) ==
    /\ task[t].pc = "users_select"
    /\ \E outcome \in StoreOutcomes :
        LET usersData == SelectConnected
            names == {r.username : r \in usersData}
            count == Cardinality(usersData)
        IN  task' = [task EXCEPT ![t] =
                IF outcome = "throw" THEN Return(task[t], "Unexpected", <<>>)
                ELSE IF outcome = "error" THEN Return(task[t], "ErrUsers", <<>>)
                ELSE IF count = 0 THEN Return(task[t], "NoUsers", <<>>)
                ELSE [Return(task[t], "Users", <<>>) EXCEPT
                         !.count = count, !.names = names]]
    /\ UNCHANGED <<users, messages, msgSeq, session, unseen, listenerVars, logLevel, verifyLog>>

\* ------------------------------------------- other relays on the same store
\* connect in another relay process: its update or its insert reaches the store
PeerConnect(raw) ==
    /\ users' = IF UsernameUnique(Normalize(raw))
                THEN users \cup {[username |-> Normalize(raw), is_connected |-> TRUE]}
                ELSE SetConnected(Normalize(raw), TRUE)
    /\ UNCHANGED <<messages, msgSeq, session, task, unseen, listenerVars, logLevel, verifyLog>>

\* disconnect in another relay process whose session holds `name`
PeerDisconnect(name) ==
    /\ ~Falsy(name)
    /\ ~UsernameUnique(name)
    /\ users' = SetConnected(name, FALSE)
    /\ UNCHANGED <<messages, msgSeq, session, task, unseen, listenerVars, logLevel, verifyLog>>

\* send in another relay process whose session holds `name`
PeerSend(name, message) ==
    /\ ~Falsy(name)
    /\ ~UsernameUnique(name)
    /\ Len(messages) < MaxMsgs
    /\ LET row == [id |-> msgSeq + 1, username |-> name, message |-> Trim(message)]
       IN  /\ messages' = InsertMessage(row)
           /\ msgSeq' = msgSeq + 1
           /\ unseen' = Append(unseen, row)
    /\ UNCHANGED <<users, session, task, listenerVars, logLevel, verifyLog>>

Peer ==
    \/ \E raw \in RawNames : PeerConnect(raw)
    \/ \E raw \in RawNames : PeerDisconnect(Normalize(raw))
    \/ \E raw \in RawNames, message \in RawTexts : PeerSend(Normalize(raw), message)

\* ------------------------------------------------------ the relay commands
InitStore ==
    /\ users = {}
    /\ messages = <<>>
    /\ msgSeq = 0

InitListener ==
    /\ realtimeChannel = Undefined
    /\ orphans = <<>>
    /\ timers = 0
    /\ tracked = NoUser
    /\ phase = "boot"
    /\ failures = 0
    /\ starts = 0
    /\ realtimeLog = <<>>

\* LOG_LEVEL is not set: pino runs at its default level
InitLog ==
    /\ logLevel = "info"
    /\ verifyLog = <<>>

Init ==
    /\ InitStore
    /\ session = [username |-> NoUser, last_message_id |-> 0]
    /\ task = [t \in Tasks |-> IF t = "t1" THEN Idle ELSE Off]
    /\ unseen = <<>>
    /\ InitListener
    /\ InitLog

Connect(t) ==
    \/ \E raw \in RawNames \cup {Missing}, cred \in Creds : ConnectCall(t, raw, cred)
    \/ ConnectSelect(t)
    \/ ConnectUpdate(t)
    \/ ConnectInsert(t)

Disconnect(t) ==
    \/ \E cred \in Creds : DisconnectCall(t, cred)
    \/ DisconnectUpdate(t)

Send(t) ==
    \/ \E message \in RawTexts \cup {Missing}, cred \in Creds : SendCall(t, message, cred)
    \/ SendVerify(t)
    \/ SendInsert(t)

Fetch(t) ==
    \/ \E cred \in Creds : FetchCall(t, cred)
    \/ FetchVerify(t)
    \/ FetchSelect(t)

ConnectedUsers(t) ==
    \/ \E cred \in Creds : ConnectedUsersCall(t, cred)
    \/ ConnectedUsersSelect(t)

Next ==
    \/ \E t \in Tasks : Connect(t)
    \/ \E t \in Tasks : Disconnect(t)
    \/ \E t \in Tasks : Send(t)
    \/ \E t \in Tasks : Fetch(t)
    \/ \E t \in Tasks, cred \in Creds : Help(t, cred)
    \/ \E t \in Tasks : ConnectedUsers(t)
    \/ Peer

\* the tools called one after the other, as typed on the command line; the
\* tools read nothing of the listener, which stays as it is here
Spec == Init /\ [][Next]_vars

\* ---------------------------------------------------- the listener on its own
NextListener ==
    \/ Boot
    \/ TimerFire
    \/ \E status \in Statuses : ChannelStatus(status)
    \/ \E i \in 1..MaxOrphans, status \in Statuses : OrphanStatus(i, status)
    \/ Sigint
    \/ ExitCommand

SpecListener == Init /\ [][NextListener]_vars

\* the timer queue of the event loop runs every due timer
FairListener == SpecListener /\ WF_vars(Boot) /\ WF_vars(TimerFire)

\* ------------------------------------------ overlapping handlers of stdin
\* process.stdin.on('data', async ...): the emitter does not wait for the
\* promise of a handler, so the line that arrives while a command is waiting
\* on the store starts the next command at once. Both invocation slots are
\* in use; simulateCommand passes the default token.
InitStdin ==
    /\ InitStore
    /\ session = [username |-> NoUser, last_message_id |-> 0]
    /\ task = [t \in Tasks |-> Idle]
    /\ unseen = <<>>
    /\ InitListener
    /\ InitLog

StdinData(t) ==
    \/ \E raw \in RawNames : t = "t1" /\ ConnectCall(t, raw, TOKEN)
    \/ FetchCall(t, TOKEN)

Resume(t) ==
    \/ ConnectSelect(t) \/ ConnectUpdate(t) \/ ConnectInsert(t)
    \/ FetchVerify(t) \/ FetchSelect(t)

\* the lines typed are a join and drains; the rows to drain are posted by
\* another relay
NextStdin ==
    \/ \E t \in Tasks : StdinData(t)
    \/ \E t \in Tasks : Resume(t)
    \/ \E message \in RawTexts : PeerSend(<<"b">>, message)

SpecStdin == InitStdin /\ [][NextStdin]_vars

\* ------------------------------------- commands while the listener runs
\* the listener started at line 120 with the status reports of its channel,
\* and the lines typed on stdin in one invocation slot: joins and drains,
\* while another relay joined under the same name posts
RunningNames == {<<" ", "A">>, <<>>}

NextRunning ==
    \/ \E t \in Tasks, raw \in RunningNames : ConnectCall(t, raw, TOKEN)
    \/ \E t \in Tasks : FetchCall(t, TOKEN)
    \/ \E t \in Tasks : Resume(t)
    \/ \E raw \in RunningNames, message \in RawTexts : PeerSend(Normalize(raw), message)
    \/ Boot
    \/ \E status \in Statuses : ChannelStatus(status)

SpecRunning == Init /\ [][NextRunning]_vars

\* ------------------------------ everything the listener does, with a session
\* the status reports, the change notifications and the reconnect timers of
\* the listener, next to a relay that joins as " A" and drains what another
\* relay posts. The reconnect timers fire here once the channel has closed;
\* SpecListener follows the channels that a timer replaces earlier.
Reconnect == ~Held(realtimeChannel) /\ TimerFire

NextNotified ==
    \/ \E t \in Tasks : ConnectCall(t, <<" ", "A">>, TOKEN)
    \/ \E t \in Tasks : FetchCall(t, TOKEN)
    \/ \E t \in Tasks : Resume(t)
    \/ PeerSend(<<"a">>, <<" ", "h">>)
    \/ Boot
    \/ Reconnect
    \/ \E status \in Statuses : ChannelStatus(status)
    \/ \E i \in 1..MaxMsgs : MessageInserted(i)
    \/ \E eventType \in UserEvents, r \in users : UserChanged(eventType, r)

SpecNotified == Init /\ [][NextNotified]_vars

\* ------------------------------------ one relay alone on a store that works
\* results a tool returns only when a store call failed; send and fetch
\* return the not-connected warning only then, as long as no other process
\* writes the users table
StoreFailureResults ==
    {"Unexpected", "ErrFetchUser", "ErrUpdateUser", "ErrInsertUser", "ErrDisconnect",
     "ErrSend", "ErrFetchMessages", "ErrUsers"}

NoStoreFailure ==
    \A t \in Tasks :
        /\ task[t].res \notin StoreFailureResults
        /\ ~(task[t].op \in {"send", "fetch"} /\ task[t].res = "NotConnected")

\* the commands of the relay, one after the other, every store call answered
\* without an error; no other relay
NextSolo ==
    \/ \E t \in Tasks : Connect(t) /\ NoStoreFailure'
    \/ \E t \in Tasks : Disconnect(t) /\ NoStoreFailure'
    \/ \E t \in Tasks : Send(t) /\ NoStoreFailure'
    \/ \E t \in Tasks : Fetch(t) /\ NoStoreFailure'
    \/ \E t \in Tasks, cred \in Creds : Help(t, cred)
    \/ \E t \in Tasks : ConnectedUsers(t) /\ NoStoreFailure'

SpecSolo == Init /\ [][NextSolo]_vars

\* ------------------------------------------------- verify and its log line
\* the credentials a caller may present to a tool, up to one character more
\* than verify logs, under either log level; help is the tool that does
\* nothing but verify
TokenChars == {"s", "e"}

TailLen == 3

Pad(n) == [i \in 1..n |-> "s"]

\* the secret, and the strings of up to MaxTokenLen characters that differ
\* in their last TailLen characters
Tokens ==
    {TOKEN} \cup
    {Pad(n) \o tail : n \in 0..(MaxTokenLen - TailLen),
                      tail \in UNION {[1..k -> TokenChars] : k \in 1..TailLen}}

InitVerify ==
    /\ InitStore
    /\ session = [username |-> NoUser, last_message_id |-> 0]
    /\ task = [t \in Tasks |-> IF t = "t1" THEN Idle ELSE Off]
    /\ unseen = <<>>
    /\ InitListener
    /\ logLevel \in Levels
    /\ verifyLog = <<>>

NextVerify == \E t \in Tasks, providedToken \in Tokens : Help(t, providedToken)

SpecVerify == InitVerify /\ [][NextVerify]_vars

\* ================================================================ properties
Returned(t) == task[t].pc # "done" /\ task'[t].pc = "done"

StartedCall(t) == task[t].pc = "done" /\ task'[t] # task[t]

\* C1: a drain that reaches the store returns exactly the messages posted
\* since the session's cursor was last set (by the join, or by the previous
\* drain that delivered), in the order of their ids, each of them once.
C1_DrainReturnsPosted ==
    [][\A t \in Tasks :
          (task[t].pc = "fetch_select" /\ Returned(t)
              /\ task'[t].res \in {"Messages", "NoNew"})
          => /\ task'[t].out = Format(unseen)
             /\ (task'[t].res = "NoNew") = (unseen = <<>>)]_vars

\* two posts made while joined were both delivered by the following drain
C1_Witness ==
    \E t \in Tasks :
        /\ task[t].pc = "done" /\ task[t].op = "fetch" /\ task[t].res = "Messages"
        /\ Len(task[t].out) = 2
        /\ \A i \in 1..2 : task[t].out[i][1] = session.username

\* C2: a drain that directly follows a drain of the same session, with no
\* message inserted in between, returns "no new messages" and leaves
\* last_message_id as it found it.
C2_SecondDrainEmpty ==
    [][\A t \in Tasks :
          (task[t].pc = "fetch_select" /\ Returned(t)
              /\ task[t].after = "fetched" /\ unseen = <<>>
              /\ task'[t].res \in {"Messages", "NoNew"})
          => /\ task'[t].res = "NoNew"
             /\ session'.last_message_id = task[t].sess0.last_message_id]_vars

C2_Witness ==
    \E t \in Tasks :
        /\ task[t].pc = "done" /\ task[t].op = "fetch" /\ task[t].res = "NoNew"
        /\ task[t].after = "fetched"
        /\ session.last_message_id >= 2

\* two usernames that are equal after trimming and lower-casing
SameUser(u, v) == ToLowerCase(Trim(u)) = ToLowerCase(Trim(v))

OneRowPerUsername == \A r1, r2 \in users : SameUser(r1.username, r2.username) => r1 = r2

\* C3: the users table never holds two rows whose usernames are equal after
\* trimming and lower-casing, whatever this relay and the other relays on the
\* store join or leave; a join that succeeds on a username without a row adds
\* exactly one row, connected, and a join that succeeds on a username with a
\* row leaves the number of rows as it is and that row connected.
C3_OneRowPerUsername ==
    /\ []OneRowPerUsername
    /\ [][\A t \in Tasks :
            (task[t].op = "connect" /\ Returned(t) /\ task'[t].res = "Connected")
            => LET name == task[t].username
                   known == \E r \in users : SameUser(r.username, name)
               IN  /\ Cardinality(users') = Cardinality(users) + (IF known THEN 0 ELSE 1)
                   /\ [username |-> name, is_connected |-> TRUE] \in users'
                   /\ \A r \in users' : r.username = name => r.is_connected]_vars

\* a join as " A" succeeded; the table holds the row of "a" and one other row
C3_Witness ==
    /\ Cardinality(users) = 2
    /\ \E r \in users : r.username = <<"a">> /\ r.is_connected
    /\ \E t \in Tasks :
        /\ task[t].pc = "done" /\ task[t].op = "connect" /\ task[t].res = "Connected"
        /\ task[t].arg = <<" ", "A">>
        /\ task[t].out = << <<"a">> >>

\* C4: an authorized send called right after a disconnect that succeeded
\* returns the must-connect warning at once and inserts no message.
C4_SendAfterLeave ==
    [][\A t \in Tasks :
          (StartedCall(t) /\ task'[t].op = "send" /\ task'[t].after = "left"
              /\ task'[t].cred = TOKEN)
          => /\ task'[t].pc = "done"
             /\ task'[t].res = "MustConnect"
             /\ messages' = messages]_vars

C4_Witness ==
    \E t \in Tasks :
        /\ task[t].pc = "done" /\ task[t].op = "send" /\ task[t].after = "left"
        /\ task[t].cred = TOKEN /\ task[t].res = "MustConnect"

\* C5: a call of any tool with a credential other than the token returns the
\* authentication failure in the step of the call; neither table and nothing
\* of the session changes.
C5_Unauthorized ==
    [][\A t \in Tasks :
          (StartedCall(t) /\ task'[t].cred # TOKEN)
          => /\ task'[t].pc = "done"
             /\ task'[t].res = "AuthFailed"
             /\ UNCHANGED <<users, messages, msgSeq, session>>]_vars

\* a joined session rejected a send with a wrong credential
C5_Witness ==
    \E t \in Tasks :
        /\ task[t].pc = "done" /\ task[t].op = "send" /\ task[t].cred # TOKEN
        /\ task[t].res = "AuthFailed"
        /\ ~Falsy(session.username)

ConnectErrors == {"ErrFetchUser", "ErrUpdateUser", "ErrInsertUser", "Unexpected"}

\* C6: when a store call of connect fails, connect returns an error and the
\* session is what it was when connect was called.
C6_ConnectFailureKeepsSession ==
    [][\A t \in Tasks :
          (task[t].op = "connect" /\ Returned(t) /\ task'[t].res \in ConnectErrors)
          => session' = task[t].sess0]_vars

\* C7: when the store update of disconnect fails, disconnect returns an error
\* and the session is what it was when disconnect was called, still joined.
C7_DisconnectFailureKeepsSession ==
    [][\A t \in Tasks :
          (task[t].op = "disconnect" /\ Returned(t)
              /\ task'[t].res \in {"ErrDisconnect", "Unexpected"})
          => /\ session' = task[t].sess0
             /\ ~Falsy(session'.username)]_vars

C7_Witness ==
    \E t \in Tasks :
        /\ task[t].pc = "done" /\ task[t].op = "disconnect"
        /\ task[t].res = "ErrDisconnect"
        /\ ~Falsy(session.username)
        /\ session.last_message_id > 0

\* a start of the listener follows: startRealtimeListener is entered again
\* (starts flips), unless the process exits first
Restarted(n) == starts # n \/ phase = "exited"

InStatus(st, n) == phase = "up" /\ realtimeChannel.status = st /\ starts = n

\* C8: from each of CHANNEL_ERROR, TIMED_OUT and CLOSED the listener goes on
\* to a new subscribing attempt while the process runs.
C8_EveryFailureRestarts ==
    \A st \in FailureStatuses : \A n \in {0, 1} : InStatus(st, n) ~> Restarted(n)

\* C9: whenever the channel has reported CLOSED a reconnect timer is pending,
\* and a new start of the listener follows, however many failures came before.
C9_ClosedRestarts ==
    /\ [](phase = "up" /\ realtimeChannel.status = "CLOSED" => timers > 0)
    /\ \A n \in {0, 1} : InStatus("CLOSED", n) ~> Restarted(n)

\* after MaxFailures CLOSED reports in a row a fresh channel is subscribing
C9_Witness ==
    /\ phase = "up"
    /\ failures = MaxFailures
    /\ realtimeChannel.status = "SUBSCRIBING"
    /\ timers = 0

LiveChannels ==
    (IF Live(realtimeChannel) THEN 1 ELSE 0)
        + Cardinality({i \in 1..Len(orphans) : Live(orphans[i])})

\* C10: at most one channel is subscribing or subscribed and at most one
\* reconnect timer is pending.
C10_NoLeakedSubscription == LiveChannels <= 1 /\ timers <= 1

\* C11: when the process has exited, by SIGINT or by /exit, the channel in
\* realtimeChannel does not hold a subscription any more: it was unsubscribed
\* (or had closed, or was never created).
C11_UnsubscribedBeforeExit == phase = "exited" => ~Held(realtimeChannel)

\* C12: a send whose text is empty after trimming never waits on a store call
\* and never returns as sent.
C12_EmptyTextRejected ==
    \A t \in Tasks :
        /\ (task[t].op = "send" /\ task[t].pc \in {"send_verify", "send_insert"})
               => Trim(task[t].arg) # <<>>
        /\ (task[t].op = "send" /\ task[t].pc = "done" /\ task[t].res = "Sent")
               => task[t].out # << <<>> >>

InFlight == {t \in Tasks : task[t].pc \notin {"done", "off"}}

\* C13: the commands typed on stdin run one after the other: never two of
\* them are between their call and their return at the same time, so that no
\* two drains wait on the message query with the same cursor value read.
C13_Sequential ==
    /\ Cardinality(InFlight) <= 1
    /\ \A t1, t2 \in Tasks :
          (t1 # t2 /\ task[t1].pc = "fetch_select" /\ task[t2].pc = "fetch_select")
              => task[t1].lastId # task[t2].lastId

\* C14: a connectedUsers call that the store answers reports as count the
\* number of rows with is_connected = true at the time of the query, lists
\* exactly the usernames of those rows, and returns the none-connected
\* message exactly when there is no such row.
C14_ConnectedUsersExact ==
    [][\A t \in Tasks :
          (task[t].pc = "users_select" /\ Returned(t)
              /\ task'[t].res \in {"Users", "NoUsers"})
          => LET rows == {r \in users : r.is_connected = TRUE} IN
             /\ task'[t].count = Cardinality(rows)
             /\ task'[t].names = {r.username : r \in rows}
             /\ (task'[t].res = "NoUsers") <=> (rows = {})]_vars

C14_Witness ==
    \E t \in Tasks :
        /\ task[t].op = "connectedUsers" /\ task[t].pc = "done"
        /\ task[t].res = "Users" /\ task[t].count = 1
        /\ \E r \in users : ~r.is_connected /\ r.username \notin task[t].names

\* C15: whatever the listener's channel is doing, a tool that is not running
\* can be called and a drain that is waiting on the store can go on; a drain
\* that the store answers returns every row whose id is above the session's
\* cursor, so also the rows inserted while nothing was subscribed.
C15_DrainWithoutStream ==
    /\ [](\A t \in Tasks :
            /\ (task[t].pc = "done" /\ phase = "up") => ENABLED FetchCall(t, TOKEN)
            /\ task[t].pc = "fetch_verify" => ENABLED FetchVerify(t)
            /\ task[t].pc = "fetch_select" => ENABLED FetchSelect(t))
    /\ [][\A t \in Tasks :
            (task[t].pc = "fetch_select" /\ Returned(t)
                /\ task'[t].res \in {"Messages", "NoNew"})
            => \A i \in 1..Len(messages) :
                   messages[i].id > session.last_message_id
                       => \E k \in 1..Len(task'[t].out) :
                              task'[t].out[k] = FormatLine(messages[i])]_vars

\* a drain delivered rows although no channel was ever created
C15_Witness ==
    \E t \in Tasks :
        /\ task[t].op = "fetch" /\ task[t].pc = "done" /\ task[t].res = "Messages"
        /\ phase = "up" /\ realtimeChannel = Undefined

\* C17: no step of the listener (a status report with its presence track, a
\* change notification, the start of the listener at boot or from a reconnect
\* timer) changes the session.
C17_ListenerKeepsSession == [][listenerVars' # listenerVars => session' = session]_vars

\* the listener has tracked presence, logged a message notification and
\* reconnected after a close, all with a joined session whose cursor has moved
C17_Witness ==
    /\ session.username = <<"a">> /\ session.last_message_id > 0
    /\ tracked = <<"a">>
    /\ realtimeLog # <<>> /\ realtimeLog[1] = "message"
    /\ failures > 0 /\ realtimeChannel.status = "SUBSCRIBING"

\* the strings the tools return, by kind
Failures ==
    {"AuthFailed", "MustConnect", "NotConnected", "Unexpected", "ErrFetchUser",
     "ErrUpdateUser", "ErrInsertUser", "ErrDisconnect", "ErrSend", "ErrFetchMessages",
     "ErrUsers"}

Successes == {"Connected", "Disconnected", "Sent", "Messages", "NoNew", "Help", "Users", "NoUsers"}

\* C16: whatever fails in a tool (the store returns an error or throws, the
\* argument is missing), the call ends with one of the tool's strings and
\* nothing is raised to the caller; after a failed call the next command can
\* be called.
C16_FailuresReturned ==
    \A t \in Tasks :
        /\ task[t].pc = "done" => task[t].res \in Failures \cup Successes \cup {"none"}
        /\ (task[t].pc = "done" /\ task[t].res \in Failures)
               => ENABLED (\E cred \in Creds : Help(t, cred))

\* connect without a username returned the unexpected-error string: a
\* connect that fails at the store has set session.username before
C16_Witness ==
    \E t \in Tasks :
        /\ task[t].op = "connect" /\ task[t].pc = "done" /\ task[t].res = "Unexpected"
        /\ session.username = NoUser

MarkedConnected(name) == \E r \in users : r.username = name /\ r.is_connected = TRUE

\* C18: every send and every fetch of a joined session asks the store for the
\* row of the session's username before anything else; when that row is
\* missing or has is_connected = false at that moment, the call ends there
\* with the not-connected warning (with the unexpected-error string if the
\* query itself throws), no message is inserted and the cursor stays.
C18_PresenceReverified ==
    [][\A t \in Tasks :
          /\ (StartedCall(t) /\ task'[t].op \in {"send", "fetch"} /\ task'[t].pc # "done")
                 => task'[t].pc \in {"send_verify", "fetch_verify"}
          /\ (task[t].pc \in {"send_verify", "fetch_verify"} /\ task'[t] # task[t]
                 /\ ~MarkedConnected(task[t].username))
                 => /\ task'[t].pc = "done"
                    /\ task'[t].res \in {"NotConnected", "Unexpected"}
                    /\ messages' = messages
                    /\ session' = session]_vars

\* a send of a joined session was refused because another relay had left
\* under the same username
C18_Witness ==
    \E t \in Tasks :
        /\ task[t].op = "send" /\ task[t].pc = "done" /\ task[t].res = "NotConnected"
        /\ ~Falsy(session.username)
        /\ \E r \in users : r.username = session.username /\ ~r.is_connected

\* C19: a connect that succeeds leaves the session with the trimmed,
\* lower-cased username and the cursor 0, whatever it held; the cursor leaves
\* 0 only by a drain that delivers, and a drain that the store answers while
\* the cursor is 0 returns every row of the table, in the order of the ids.
C19_JoinResetsSession ==
    [][\A t \in Tasks :
          /\ (task[t].op = "connect" /\ Returned(t) /\ task'[t].res = "Connected")
                 => /\ session'.username = ToLowerCase(Trim(task[t].arg))
                    /\ session'.last_message_id = 0
          /\ (task[t].pc = "fetch_select" /\ Returned(t) /\ session.last_message_id = 0
                 /\ task'[t].res \in {"Messages", "NoNew"})
                 => task'[t].out = Format(messages)
          /\ (session.last_message_id = 0 /\ session'.last_message_id # 0)
                 => \E u \in Tasks : /\ task[u].pc = "fetch_select" /\ Returned(u)
                                     /\ task'[u].res = "Messages"]_vars

\* a join after a drain, with rows in the table: the cursor is 0 again
C19_Witness ==
    \E t \in Tasks :
        /\ task[t].op = "connect" /\ task[t].pc = "done" /\ task[t].res = "Connected"
        /\ task[t].after = "fetched"
        /\ Len(messages) = MaxMsgs
        /\ session = [username |-> <<"a">>, last_message_id |-> 0]
        /\ task[t].arg = <<" ", "A">>

Largest(ids) == IF ids = {} THEN 0 ELSE CHOOSE x \in ids : \A y \in ids : y <= x

IdsAbove(n) == {messages[i].id : i \in {j \in 1..Len(messages) : messages[j].id > n}}

\* C20: a drain that returns rows leaves the cursor at the largest id among
\* them; the cursor goes down only when a connect or a disconnect succeeds;
\* and it is never above the largest id in the table.
C20_CursorMonotone ==
    /\ [](session.last_message_id <= Largest(IdsAbove(-1)))
    /\ [][\A t \in Tasks :
            (task[t].pc = "fetch_select" /\ Returned(t) /\ task'[t].res = "Messages")
                => /\ IdsAbove(task[t].lastId) # {}
                   /\ Len(task'[t].out) = Cardinality(IdsAbove(task[t].lastId))
                   /\ session'.last_message_id = Largest(IdsAbove(task[t].lastId))]_vars
    /\ [][session'.last_message_id < session.last_message_id
            => \E t \in Tasks : /\ task[t].op \in {"connect", "disconnect"} /\ Returned(t)
                                /\ task'[t].res \in {"Connected", "Disconnected"}]_vars

\* the second drain of a session delivered one more row and moved the cursor
\* from the first id to the second
C20_Witness ==
    \E t \in Tasks :
        /\ task[t].op = "fetch" /\ task[t].pc = "done" /\ task[t].res = "Messages"
        /\ task[t].after = "fetched" /\ Len(task[t].out) = 1
        /\ session.last_message_id = 2

\* C21: every step leaves the rows of the messages table as they are and adds
\* at most one row, at the end, whose id is above every id in the table; a
\* step of a tool adds a row exactly when it is the insert of a send that
\* returns as sent, so connect, disconnect, fetch, help and connectedUsers
\* leave the table unchanged.
C21_MessagesAppendOnly ==
    [][/\ Len(messages') \in {Len(messages), Len(messages) + 1}
       /\ \A i \in 1..Len(messages) : messages'[i] = messages[i]
       /\ Len(messages') = Len(messages) + 1
              => messages'[Len(messages')].id > Largest(IdsAbove(-1))
       /\ \A t \in Tasks :
              task'[t] # task[t]
                  => ((messages' # messages)
                          <=> (task[t].pc = "send_insert" /\ task'[t].res = "Sent"))]_vars

\* a send added the second row of the table, after a row of another relay
C21_Witness ==
    \E t \in Tasks :
        /\ task[t].op = "send" /\ task[t].pc = "done" /\ task[t].res = "Sent"
        /\ Len(messages) = 2
        /\ messages[1].username # messages[2].username
        /\ messages[2].username = session.username
        /\ messages[1].id < messages[2].id

IsPrefix(p, str) == Len(p) <= Len(str) /\ p = SubSeq(str, 1, Len(p))

\* C22: the log never holds the whole credential of the call that was made
\* last: what verify wrote of it is a prefix that is shorter than the
\* credential.
C22_CredentialNotLoggedInFull ==
    \A t \in Tasks :
        task[t].op = "help"
            => /\ verifyLog # task[t].cred
               /\ IsPrefix(verifyLog, task[t].cred)

\* C23: with the commands run one after the other, a session without an
\* active username (null, or the empty string that the active-session check
\* of send and fetch rejects as well) has the cursor 0 whenever no command
\* is running.
C23_NoUserNoCursor ==
    (InFlight = {} /\ Falsy(session.username)) => session.last_message_id = 0

\* C24: for a relay alone on a store that never fails, between two commands
\* the usernames marked connected are none when the session's username is
\* null and just the session's username otherwise.
C24_ConnectedIsSession ==
    InFlight = {}
        => {r.username : r \in SelectConnected}
               = (IF session.username = NoUser THEN {} ELSE {session.username})

====
